---- MODULE Spec2Model ----
(***************************************************************************)
(* Model of src/main.py: one run of the sfeed HTML generator.              *)
(*                                                                         *)
(*   main() = fetch_rss_feeds(); generate_json_file(); generate_html_file()*)
(*                                                                         *)
(* Time is counted in ticks, TicksPerDay ticks to a day.  A date string of *)
(* the intermediate file is a record of what strptime looks at: whether    *)
(* the text has the layout of "%Y-%m-%dT%H:%M:%SZ", whether its fields are *)
(* digits, and the day and time-of-day fields it carries.                  *)
(***************************************************************************)
EXTENDS Integers, Sequences, FiniteSets, TLC

\* ------------------------------------------------------------ bounds
MaxItems == 3
TicksPerDay == 2
MaxTicks == 1

\* ------------------------------------------------------------ constants
RETENTION_DAYS == 4

SFEED_UPDATE_COMMAND == "sfeed_update"
SFEED_JSON_COMMAND == "sfeed_json"

\* timedelta(days=4), in ticks
RetentionWindow == RETENTION_DAYS * TicksPerDay

\* The first day a record of the input may carry, and the UTC clock at the
\* start of the run: the run starts exactly RETENTION_DAYS after the first
\* tick of FirstDay, so the input straddles the retention boundary.
FirstDay == 2
StartClock == FirstDay * TicksPerDay + RetentionWindow

\* Offsets of the machine's local time from UTC, in ticks.
TzOffsets == {-1, 0, 1}

\* ------------------------------------------------------------ input
ValidDates ==
    {[fmt |-> "iso", numeric |-> TRUE, day |-> FirstDay, tick |-> t] :
        t \in 0..(TicksPerDay - 1)}
    \cup {[fmt |-> "iso", numeric |-> TRUE, day |-> FirstDay + 1, tick |-> 0]}

\* out-of-range value, non-numeric field, wrong format ("not-a-date")
MalformedDates ==
    { [fmt |-> "iso", numeric |-> TRUE, day |-> FirstDay, tick |-> TicksPerDay],
      [fmt |-> "iso", numeric |-> FALSE, day |-> FirstDay, tick |-> 0],
      [fmt |-> "text", numeric |-> FALSE, day |-> 0, tick |-> 0] }

DateStrings == ValidDates \cup MalformedDates

RawFeedItems ==
    {[title |-> "a", url |-> "u", date_published |-> d] : d \in DateStrings}
    \cup {[title |-> "b", url |-> "v",
           date_published |-> [fmt |-> "iso", numeric |-> TRUE,
                               day |-> FirstDay, tick |-> 0]]}

ItemLists == UNION {[1..n -> RawFeedItems] : n \in 0..MaxItems}

VARIABLES
    pc,            \* position of main()
    exit_code,     \* <<>> while running, <<status>> once the process ended
    feeds_dir,     \* FEEDS_DIR_PATH: "absent", "stale" (previous run), "fresh"
    json_file,     \* JSON_FILE_PATH
    html_file,     \* HTML_FILE_PATH: the sequence of chunks written
    calls,         \* the external commands run so far and their exit status
    data,          \* generate_html_file: the loaded document's items
    pos,           \* parse_json_data: number of records iterated
    parsed_news,   \* parse_json_data, generate_html_file: the list built
    sorted_news,   \* write_to_html_file: its local parsed_news (line 101)
    clock,         \* the UTC wall clock
    tz,            \* the machine's local-time offset
    decisions,     \* history: per record, the clock readings and the outcome
    stages         \* history: the stages completed so far, in order

vars == <<pc, exit_code, feeds_dir, json_file, html_file, calls, data, pos,
          parsed_news, sorted_news, clock, tz, decisions, stages>>

\* ------------------------------------------------------------ values
NewsItem(title, link, date_published) ==
    [title |-> title, link |-> link, date_published |-> date_published]

Chunk(tag) == [tag |-> tag, date |-> 0, href |-> "", text |-> ""]

HTML_HEADER == Chunk("HTML_HEADER")
HTML_FOOTER == Chunk("HTML_FOOTER")
OldPage == <<Chunk("OLD_PAGE")>>

\* datetime.date(): the date portion of a datetime
DateOf(dt) == dt \div TicksPerDay

\* datetime.datetime.now(): the local wall clock, naive (no tzinfo)
datetime_now == clock + tz

\* datetime.datetime.strptime(dt, "%Y-%m-%dT%H:%M:%SZ"): the naive datetime
\* the text spells, or ValueError when the text does not match the format,
\* a field is not made of digits, or a field is out of range.
strptime(dt) ==
    IF dt.fmt # "iso" \/ ~dt.numeric
    THEN [exc |-> "ValueError", value |-> 0]
    ELSE IF dt.day < 1 \/ dt.tick < 0 \/ dt.tick >= TicksPerDay
    THEN [exc |-> "ValueError", value |-> 0]
    ELSE [exc |-> "none", value |-> dt.day * TicksPerDay + dt.tick]

\* Mutant: the handler names another exception type, so ValueError escapes.
parse_published_date_WrongExcept(dt) ==
    LET parsed == strptime(dt)
        four_days_ago == datetime_now - RetentionWindow
    IN  IF parsed.exc # "none"
        THEN [status |-> "raise", value |-> 0]
        ELSE IF parsed.value < four_days_ago
        THEN [status |-> "None", value |-> 0]
        ELSE [status |-> "value", value |-> parsed.value]

\* parse_published_date: status "value" with the datetime, "None", or "raise"
\* when an exception other than ValueError leaves the function.
parse_published_date(dt) ==
    LET parsed == strptime(dt)
        four_days_ago == datetime_now - RetentionWindow
    IN  IF parsed.exc = "ValueError"
        THEN [status |-> "None", value |-> 0]
        ELSE IF parsed.exc # "none"
        THEN [status |-> "raise", value |-> 0]
        ELSE IF parsed.value < four_days_ago
        THEN [status |-> "None", value |-> 0]
        ELSE [status |-> "value", value |-> parsed.value]

\* One insertion of sorted(): x goes behind every element whose key is not
\* smaller, so equal keys keep their input order (Python's sort is stable,
\* also with reverse=True).
InsertDescending(x, s) ==
    LET k == Cardinality({i \in 1..Len(s) :
                             s[i].date_published >= x.date_published})
    IN  SubSeq(s, 1, k) \o <<x>> \o SubSeq(s, k + 1, Len(s))

\* Mutant: reverse=True forgotten, oldest first.
RECURSIVE sorted_ascending(_)
sorted_ascending(s) ==
    IF s = <<>> THEN <<>>
    ELSE LET done == sorted_ascending(SubSeq(s, 1, Len(s) - 1))
             x == s[Len(s)]
             k == Cardinality({i \in 1..Len(done) :
                                  done[i].date_published <= x.date_published})
         IN  SubSeq(done, 1, k) \o <<x>> \o SubSeq(done, k + 1, Len(done))

\* sorted(parsed_news, key=lambda i: i.date_published, reverse=True)
RECURSIVE sorted_reverse(_)
sorted_reverse(s) ==
    IF s = <<>> THEN <<>>
    ELSE InsertDescending(s[Len(s)], sorted_reverse(SubSeq(s, 1, Len(s) - 1)))

\* Mutant: the datetime is written whole, not its date portion.
list_entry_datetime(news_item) ==
    [tag |-> "li", date |-> news_item.date_published,
     href |-> news_item.link, text |-> news_item.title]

\* '    <li><span> {dp}</span> <a href="{il}">{it}</a></li>\n'
list_entry(news_item) ==
    [tag |-> "li", date |-> DateOf(news_item.date_published),
     href |-> news_item.link, text |-> news_item.title]

\* The chunks write_to_html_file writes, in order.
html_document(news) ==
    <<HTML_HEADER, Chunk("<ul>")>>
    \o [i \in 1..Len(news) |-> list_entry(news[i])]
    \o <<Chunk("</ul>"), HTML_FOOTER>>

\* ------------------------------------------------------------ initial state
Init ==
    /\ pc = "remove_feeds_dir"
    /\ exit_code = <<>>
    /\ feeds_dir \in {"absent", "stale"}
    /\ json_file = [state |-> "old", items |-> <<>>]
    /\ html_file = OldPage
    /\ calls = <<>>
    /\ data = <<>>
    /\ pos = 0
    /\ parsed_news = <<>>
    /\ sorted_news = <<>>
    /\ clock = StartClock
    /\ tz \in TzOffsets
    /\ decisions = <<>>
    /\ stages = <<>>

\* sys.exit(1), or an exception nobody catches: the process ends, status 1
Abort ==
    /\ pc' = "aborted"
    /\ exit_code' = <<1>>

\* subprocess.run(cmd, shell=True, check=True) has run and the shell ended
\* with returncode.
Ran(cmd, returncode) == [cmd |-> cmd, returncode |-> returncode]

\* How shutil.rmtree can end.
RmtreeOutcomes == {"ok", "FileNotFoundError", "PermissionError"}

\* ------------------------------------------------------------ fetch_rss_feeds
\* Mutant: a failed removal is only reported, like a failed fetch, and the
\* function returns.
RemoveFeedsDir_Swallow ==
    /\ pc = "remove_feeds_dir"
    /\ \/ /\ feeds_dir = "absent"
          /\ pc' = "sfeed_update"
          /\ stages' = Append(stages, "clear")
          /\ UNCHANGED <<exit_code, feeds_dir>>
       \/ /\ feeds_dir = "stale"
          /\ \E outcome \in RmtreeOutcomes :
                IF outcome = "ok"
                THEN /\ feeds_dir' = "absent"
                     /\ pc' = "sfeed_update"
                     /\ stages' = Append(stages, "clear")
                     /\ UNCHANGED exit_code
                ELSE /\ pc' = "sfeed_json"
                     /\ UNCHANGED <<exit_code, feeds_dir, stages>>
    /\ UNCHANGED <<json_file, html_file, calls, data, pos, parsed_news,
                   sorted_news, clock, tz, decisions>>

\* Mutant: the old feeds are not deleted.
RemoveFeedsDir_NoRmtree ==
    /\ pc = "remove_feeds_dir"
    /\ pc' = "sfeed_update"
    /\ stages' = Append(stages, "clear")
    /\ UNCHANGED <<exit_code, feeds_dir, json_file, html_file, calls, data,
                   pos, parsed_news, sorted_news, clock, tz, decisions>>

\* if Path(FEEDS_DIR_PATH).exists(): shutil.rmtree(FEEDS_DIR_PATH)
\* FileNotFoundError is caught and followed by sys.exit(1); any other error
\* of rmtree is caught by nobody and ends the process with a traceback.
RemoveFeedsDir ==
    /\ pc = "remove_feeds_dir"
    /\ \/ /\ feeds_dir = "absent"
          /\ pc' = "sfeed_update"
          /\ stages' = Append(stages, "clear")
          /\ UNCHANGED <<exit_code, feeds_dir>>
       \/ /\ feeds_dir = "stale"
          /\ \E outcome \in RmtreeOutcomes :
                IF outcome = "ok"
                THEN /\ feeds_dir' = "absent"
                     /\ pc' = "sfeed_update"
                     /\ stages' = Append(stages, "clear")
                     /\ UNCHANGED exit_code
                ELSE /\ Abort
                     /\ UNCHANGED <<feeds_dir, stages>>
    /\ UNCHANGED <<json_file, html_file, calls, data, pos, parsed_news,
                   sorted_news, clock, tz, decisions>>

\* Mutant: a failed fetch ends the run.
RunSfeedUpdate_Fatal ==
    /\ pc = "sfeed_update"
    /\ \E returncode \in {0, 1} :
          /\ calls' = Append(calls, Ran(SFEED_UPDATE_COMMAND, returncode))
          /\ IF returncode = 0
             THEN /\ feeds_dir' = "fresh"
                  /\ pc' = "sfeed_json"
                  /\ stages' = Append(stages, "fetch")
                  /\ UNCHANGED exit_code
             ELSE /\ feeds_dir' \in {"absent", "fresh"}
                  /\ Abort
                  /\ UNCHANGED stages
    /\ UNCHANGED <<json_file, html_file, data, pos, parsed_news, sorted_news,
                   clock, tz,
                   decisions>>

\* subprocess.run("sfeed_update sfeedrc", shell=True, check=True); a non-zero
\* exit raises CalledProcessError, which is reported and nothing more.  A
\* failed fetch leaves the feeds of the sources that answered, or nothing.
RunSfeedUpdate ==
    /\ pc = "sfeed_update"
    /\ \E returncode \in {0, 1} :
          /\ calls' = Append(calls, Ran(SFEED_UPDATE_COMMAND, returncode))
          /\ IF returncode = 0
             THEN feeds_dir' = "fresh"
             ELSE feeds_dir' \in {"absent", "fresh"}
    /\ pc' = "sfeed_json"
    /\ stages' = Append(stages, "fetch")
    /\ UNCHANGED <<exit_code, json_file, html_file, data, pos, parsed_news,
                   sorted_news, clock, tz, decisions>>

\* ------------------------------------------------------------ generate_json_file
\* Mutant: a failed conversion is only reported.
generate_json_file_NoExit ==
    /\ pc = "sfeed_json"
    /\ \E returncode \in {0, 1} :
          /\ calls' = Append(calls, Ran(SFEED_JSON_COMMAND, returncode))
          /\ IF returncode = 0
             THEN \E items \in ItemLists :
                     json_file' = [state |-> "new", items |-> items]
             ELSE json_file' = [state |-> "truncated", items |-> <<>>]
    /\ pc' = "load_json"
    /\ stages' = Append(stages, "convert")
    /\ UNCHANGED <<exit_code, feeds_dir, html_file, data, pos, parsed_news,
                   sorted_news, clock, tz, decisions>>

\* subprocess.run("sfeed_json feeds/* > result.json", shell=True, check=True)
\* The shell truncates result.json before sfeed_json runs; a non-zero exit
\* raises CalledProcessError, followed by sys.exit(1).
generate_json_file ==
    /\ pc = "sfeed_json"
    /\ \E returncode \in {0, 1} :
          /\ calls' = Append(calls, Ran(SFEED_JSON_COMMAND, returncode))
          /\ IF returncode = 0
             THEN /\ \E items \in ItemLists :
                        json_file' = [state |-> "new", items |-> items]
                  /\ pc' = "load_json"
                  /\ stages' = Append(stages, "convert")
                  /\ UNCHANGED exit_code
             ELSE /\ json_file' = [state |-> "truncated", items |-> <<>>]
                  /\ Abort
                  /\ UNCHANGED stages
    /\ UNCHANGED <<feeds_dir, html_file, data, pos, parsed_news, sorted_news,
                   clock, tz,
                   decisions>>

\* ------------------------------------------------------------ generate_html_file
\* data = json.load(file); parse_json_data: parsed_news = [], items = data["items"]
LoadJson ==
    /\ pc = "load_json"
    /\ data' = json_file.items
    /\ pos' = 0
    /\ parsed_news' = <<>>
    /\ pc' = "parse_items"
    /\ stages' = Append(stages, "read")
    /\ UNCHANGED <<exit_code, feeds_dir, json_file, html_file, calls,
                   sorted_news, clock, tz, decisions>>

\* What one iteration of the loop of parse_json_data does with the result
\* of parse_published_date.
ParseStep(item, result, keep) ==
    /\ decisions' = Append(decisions,
                           [current_date |-> datetime_now, utc |-> clock,
                            kept |-> keep])
    /\ IF result.status = "raise"
       THEN /\ Abort
            /\ UNCHANGED <<pos, parsed_news, sorted_news>>
       ELSE /\ pos' = pos + 1
            /\ parsed_news' =
                  IF keep
                  THEN Append(parsed_news,
                              NewsItem(item.title, item.url, result.value))
                  ELSE parsed_news
            /\ UNCHANGED <<pc, exit_code>>
    /\ UNCHANGED <<feeds_dir, json_file, html_file, calls, data, sorted_news,
                   clock, tz, stages>>

\* Mutant: a record whose title is already in the list is dropped.
ParseItem_DedupTitle ==
    /\ pc = "parse_items"
    /\ pos < Len(data)
    /\ LET item == data[pos + 1]
           datetime_obj == parse_published_date(item.date_published)
       IN  ParseStep(item, datetime_obj,
                     /\ datetime_obj.status = "value"
                     /\ \A i \in 1..Len(parsed_news) :
                           parsed_news[i].title # item.title)

\* Mutant: a record whose date is already in the list is dropped.
ParseItem_DedupDate ==
    /\ pc = "parse_items"
    /\ pos < Len(data)
    /\ LET item == data[pos + 1]
           datetime_obj == parse_published_date(item.date_published)
       IN  ParseStep(item, datetime_obj,
                     /\ datetime_obj.status = "value"
                     /\ \A i \in 1..Len(parsed_news) :
                           parsed_news[i].date_published # datetime_obj.value)

\* for item in items: one iteration (lines 84-91)
ParseItem ==
    /\ pc = "parse_items"
    /\ pos < Len(data)
    /\ LET item == data[pos + 1]
           datetime_obj == parse_published_date(item.date_published)
       IN  ParseStep(item, datetime_obj, datetime_obj.status = "value")

\* return parsed_news (the loop is exhausted)
ParseReturn ==
    /\ pc = "parse_items"
    /\ pos = Len(data)
    /\ pc' = "sort"
    /\ stages' = Append(stages, "extract")
    /\ UNCHANGED <<exit_code, feeds_dir, json_file, html_file, calls, data,
                   pos, parsed_news, sorted_news, clock, tz, decisions>>

\* parsed_news = sorted(parsed_news, ...)
SortNews ==
    /\ pc = "sort"
    /\ sorted_news' = sorted_reverse(parsed_news)
    /\ pc' = "write_html"
    /\ stages' = Append(stages, "sort")
    /\ UNCHANGED <<exit_code, feeds_dir, json_file, html_file, calls, data,
                   pos, parsed_news, clock, tz, decisions>>

\* with open(HTML_FILE_PATH, "w") ...: the writes of lines 106-120; main()
\* returns and the process ends with status 0.
WriteHtml ==
    /\ pc = "write_html"
    /\ html_file' = html_document(sorted_news)
    /\ pc' = "done"
    /\ exit_code' = <<0>>
    /\ stages' = Append(stages, "render")
    /\ UNCHANGED <<feeds_dir, json_file, calls, data, pos, parsed_news,
                   sorted_news, clock, tz, decisions>>

\* Time passes between two iterations of the loop.  The clock is read only
\* inside the loop (line 61), once per record that parses.
Tick ==
    /\ pc = "parse_items"
    /\ clock < StartClock + MaxTicks
    /\ clock' = clock + 1
    /\ UNCHANGED <<pc, exit_code, feeds_dir, json_file, html_file, calls,
                   data, pos, parsed_news, sorted_news, tz, decisions, stages>>

Next ==
    \/ RemoveFeedsDir
    \/ RunSfeedUpdate
    \/ generate_json_file
    \/ LoadJson
    \/ ParseItem
    \/ ParseReturn
    \/ SortNews
    \/ WriteHtml
    \/ Tick

Spec == Init /\ [][Next]_vars

\* ------------------------------------------------------------ properties
Processed == 1..Len(decisions)

Cmds == [i \in 1..Len(calls) |-> calls[i].cmd]

FetchFailed ==
    \E i \in 1..Len(calls) :
        calls[i].cmd = SFEED_UPDATE_COMMAND /\ calls[i].returncode # 0

ConvertFailed ==
    \E i \in 1..Len(calls) :
        calls[i].cmd = SFEED_JSON_COMMAND /\ calls[i].returncode # 0

ConvertSucceeded ==
    \E i \in 1..Len(calls) :
        calls[i].cmd = SFEED_JSON_COMMAND /\ calls[i].returncode = 0

Entries == SubSeq(html_file, 3, Len(html_file) - 2)

Count(s, x) == Cardinality({i \in 1..Len(s) : s[i] = x})

IsPermutation(s, t) ==
    /\ Len(s) = Len(t)
    /\ \A i \in 1..Len(s) : Count(s, s[i]) = Count(t, s[i])

NonIncreasing(s) ==
    \A i \in 1..(Len(s) - 1) : s[i].date_published >= s[i + 1].date_published

StageOrder ==
    <<"clear", "fetch", "convert", "read", "extract", "sort", "render">>

IsPrefix(s, t) == Len(s) <= Len(t) /\ s = SubSeq(t, 1, Len(s))

\* C1: a record whose date_published parses becomes a NewsItem iff the UTC
\* instant it spells is >= now - 4 days, now being the wall clock (UTC) when
\* the record is examined; equality is retained.
C1_RetainedIffWithinWindow ==
    \A i \in Processed :
        LET published_at == strptime(data[i].date_published)
        IN  published_at.exc = "none" =>
               (decisions[i].kept <=>
                   published_at.value >= decisions[i].utc - RetentionWindow)

\* C2: a record with a malformed date_published is skipped and no exception
\* escapes: no NewsItem is made of it, every record of the collection is
\* still examined, and the run ends with status 0 with one entry rendered
\* per retained record.
C2_MalformedSkipped ==
    /\ \A i \in Processed :
          data[i].date_published \in MalformedDates => ~decisions[i].kept
    /\ pc = "aborted" => Len(decisions) = 0
    /\ pc \in {"sort", "write_html", "done"} => Len(decisions) = Len(data)
    /\ pc = "done" =>
          /\ exit_code = <<0>>
          /\ Len(Entries) = Cardinality({i \in Processed : decisions[i].kept})
          /\ \A i \in Processed :
                decisions[i].kept =>
                   \E k \in 1..Len(Entries) :
                       /\ Entries[k].text = data[i].title
                       /\ Entries[k].href = data[i].url
                       /\ Entries[k].date = data[i].date_published.day

C2_Witness ==
    /\ pc = "done"
    /\ \E i, j \in Processed :
          /\ i < j
          /\ data[i].date_published \in MalformedDates
          /\ decisions[j].kept
          /\ Len(Entries) >= 1

\* C3: when sfeed_json fails the run aborts with a non-zero status, the
\* intermediate file is never read, nothing is rendered and the HTML file
\* is what it was before the run.
C3_ConvertFailureFatal ==
    ConvertFailed =>
        /\ pc = "aborted"
        /\ exit_code = <<1>>
        /\ stages = <<"clear", "fetch">>
        /\ data = <<>>
        /\ html_file = OldPage

C3_Witness == ConvertFailed /\ pc = "aborted" /\ json_file.state = "truncated"

\* C4: a non-zero exit of sfeed_update is not fatal: the run goes on to
\* sfeed_json, and when that succeeds the run never aborts: it is inside
\* generate_html_file, the loop index within the collection, until it ends
\* with the page rendered and status 0.
C4_FetchFailureNotFatal ==
    FetchFailed =>
        /\ \/ pc = "sfeed_json"
           \/ \E i \in 1..Len(calls) : calls[i].cmd = SFEED_JSON_COMMAND
        /\ pc = "aborted" => ConvertFailed
        /\ ConvertSucceeded =>
              /\ pc # "aborted"
              /\ pc # "done" =>
                    /\ pc \in {"load_json", "parse_items", "sort", "write_html"}
                    /\ pos <= Len(data)
              /\ pc = "done" =>
                    /\ exit_code = <<0>>
                    /\ stages = StageOrder
                    /\ html_file = html_document(sorted_news)

C4_Witness ==
    /\ FetchFailed
    /\ ConvertSucceeded
    /\ pc = "done"
    /\ exit_code = <<0>>
    /\ \E i \in Processed : ~decisions[i].kept

\* C5: when the stale feeds directory cannot be removed the run aborts with
\* a non-zero status and neither sfeed_update nor any later stage starts.
C5_CleanupFailureFatal ==
    (feeds_dir = "stale" /\ pc # "remove_feeds_dir") =>
        /\ pc = "aborted"
        /\ exit_code = <<1>>
        /\ calls = <<>>
        /\ stages = <<>>
        /\ html_file = OldPage

C5_Witness == feeds_dir = "stale" /\ pc = "aborted"

\* C6: the stages run in the fixed order, one after the other; sfeed_update
\* and sfeed_json run at most once each; when sfeed_update is invoked the
\* feeds directory of the previous run is gone.
C6_StageOrder ==
    /\ IsPrefix(stages, StageOrder)
    /\ IsPrefix(Cmds, <<SFEED_UPDATE_COMMAND, SFEED_JSON_COMMAND>>)
    /\ pc = "sfeed_update" => feeds_dir = "absent" /\ stages = <<"clear">>
    /\ Len(calls) >= 1 => feeds_dir # "stale"
    /\ pc = "sfeed_json" => stages = <<"clear", "fetch">> /\ Len(calls) = 1
    /\ pc = "load_json" => Len(stages) = 3 /\ Len(calls) = 2
    /\ pc = "parse_items" => Len(stages) = 4
    /\ pc = "sort" => Len(stages) = 5
    /\ pc = "write_html" => Len(stages) = 6
    /\ pc = "done" => stages = StageOrder
    /\ html_file # OldPage => pc = "done"

C6_Witness ==
    /\ pc = "done"
    /\ stages = StageOrder
    /\ Cmds = <<SFEED_UPDATE_COMMAND, SFEED_JSON_COMMAND>>
    /\ feeds_dir = "fresh"

\* C7: the entries are rendered in an order that is non-increasing in
\* published_at and is a permutation of the list handed to
\* write_to_html_file; an empty list yields no entry.
C7_SortedDescending ==
    /\ pc \in {"write_html", "done"} =>
          /\ NonIncreasing(sorted_news)
          /\ IsPermutation(sorted_news, parsed_news)
    /\ pc = "done" =>
          /\ Len(Entries) = Len(parsed_news)
          /\ \A i \in 1..Len(Entries) :
                /\ Entries[i].text = sorted_news[i].title
                /\ Entries[i].href = sorted_news[i].link

C7_Witness ==
    /\ pc = "done"
    /\ Len(parsed_news) = 3
    /\ parsed_news[1].date_published < parsed_news[2].date_published
    /\ parsed_news[2].date_published = parsed_news[3].date_published
    /\ sorted_news # parsed_news
    /\ Len(Entries) = 3

\* C8: the document is the header, one list container with one entry per
\* NewsItem and the footer, in that order; an entry carries the date
\* portion of its item's publication date, its link as anchor target and
\* its title as anchor text.
C8_Document ==
    pc = "done" =>
        LET n == Len(sorted_news) IN
        /\ Len(html_file) = n + 4
        /\ html_file[1] = HTML_HEADER
        /\ html_file[2] = Chunk("<ul>")
        /\ \A i \in 1..n :
              /\ html_file[2 + i].tag = "li"
              /\ html_file[2 + i].href = sorted_news[i].link
              /\ html_file[2 + i].text = sorted_news[i].title
              /\ \E d \in ValidDates :
                    /\ strptime(d).value = sorted_news[i].date_published
                    /\ html_file[2 + i].date = d.day
        /\ html_file[n + 3] = Chunk("</ul>")
        /\ html_file[n + 4] = HTML_FOOTER

C8_Witness ==
    /\ pc = "done"
    /\ Len(sorted_news) = 2
    /\ Len(html_file) = 6
    /\ html_file[3].date # html_file[4].date
    /\ html_file[3].text # html_file[4].text

\* The records of data[1..n] that parse and pass the recency filter at the
\* clock reading of their examination, as NewsItems, in input order.
RECURSIVE Retained(_)
Retained(n) ==
    IF n = 0 THEN <<>>
    ELSE LET item == data[n]
             published_at == strptime(item.date_published)
         IN  IF /\ published_at.exc = "none"
                /\ published_at.value >=
                      decisions[n].current_date - RetentionWindow
             THEN Append(Retained(n - 1),
                         NewsItem(item.title, item.url, published_at.value))
             ELSE Retained(n - 1)

\* C9: parse_json_data iterates the whole collection and returns exactly
\* the records that parse and pass the recency filter, in input order,
\* duplicates included.
C9_ExactSubsequence ==
    /\ pc = "parse_items" =>
          pos = Len(decisions) /\ parsed_news = Retained(pos)
    /\ pc \in {"sort", "write_html", "done"} =>
          /\ Len(decisions) = Len(data)
          /\ parsed_news = Retained(Len(data))

C9_Witness ==
    /\ pc = "sort"
    /\ Len(data) = 3
    /\ decisions[1].kept /\ ~decisions[2].kept /\ decisions[3].kept
    /\ data[1] = data[3]
    /\ Len(parsed_news) = 2

====
